---- MODULE Spec2Model ----
(***************************************************************************)
(* Model of the ReportGenerator component of src/app/page.jsx: the         *)
(* template/filter form, the simulated generation driven by a 500 ms       *)
(* interval timer guarded by an AbortController, and the report history.   *)
(*                                                                         *)
(* Time is counted in timer periods (one unit = 500 ms), because the       *)
(* retention window in milliseconds does not fit a 32-bit integer.         *)
(* Every event handler and every timer callback is one atomic action:      *)
(* JavaScript runs them to completion and React batches their setState     *)
(* calls into one render.                                                  *)
(***************************************************************************)
EXTENDS Naturals, Integers, Sequences, FiniteSets, TLC

\* ---------------------------------------------------------------- bounds
\* number of generateReport invocations explored
MaxAttempts == 2
\* number of 28-day clock jumps explored
MaxJumps == 1

\* ------------------------------------------------------ program constants
\* one timer period (setInterval(..., 500)), the unit of time of the model
TimerPeriod == 1
\* currentProgress += 10
ProgressStep == 10
\* if (currentProgress >= 100)
ProgressDone == 100
\* 28 * 24 * 60 * 60 * 1000 ms, in timer periods of 500 ms
Retention == 28 * 24 * 60 * 60 * 2

\* ------------------------------------------------------- template catalog
NoReport == "none"

ReportKeys == {"sales", "inventory", "revenue"}

\* REPORT_TYPES[key].name
ReportName(key) ==
  CASE key = "sales" -> "Sales Report"
    [] key = "inventory" -> "Inventory Report"
    [] key = "revenue" -> "Revenue Report"

\* REPORT_TYPES[key].filters, as the ordered list of the filter ids
ReportFilters(key) ==
  CASE key = "sales" -> <<"dateRange", "region", "productCategory">>
    [] key = "inventory" -> <<"warehouse", "productType">>
    [] key = "revenue" -> <<"year", "quarter">>

\* the values a filter input can deliver: the date input gives a date string
\* or the empty string, a select gives one of its options (the first one here)
FilterOptions(filterId) ==
  CASE filterId = "dateRange" -> {"", "2024-01-01"}
    [] filterId = "region" -> {"North"}
    [] filterId = "productCategory" -> {"Electronics"}
    [] filterId = "warehouse" -> {"Warehouse A"}
    [] filterId = "productType" -> {"Raw Materials"}
    [] filterId = "year" -> {"2022"}
    [] filterId = "quarter" -> {"Q1"}

Range(s) == {s[i] : i \in 1..Len(s)}

\* the empty object {}
EmptyFilters == <<>>

\* ------------------------------------------------------------------ state
VARIABLES
  selectedReport,      \* useState(null): key of the selected template
  filters,             \* useState({}): filter id -> value
  generationStatus,    \* useState(null): "null", "generating", "completed", "cancelled"
  progress,            \* useState(0)
  reportHistory,       \* useState([]): newest first
  activeReports,       \* the memoised value of useMemo(..., [reportHistory])
  abortControllerRef,  \* useRef(null).current: 0 is null, else a controller
  controllers,         \* the AbortControllers created so far
  intervals,           \* the setInterval timers created so far, with their closures
  now,                 \* the clock read by Date.now() / new Date()
  mounted,             \* the component is mounted
  fate                 \* per attempt, the operation that ended it

vars == <<selectedReport, filters, generationStatus, progress, reportHistory,
          activeReports, abortControllerRef, controllers, intervals, now,
          mounted, fate>>

Attempts == 1..Len(intervals)

\* ------------------------------------------------------------- operations
\* the body of the useMemo: reportHistory.filter(r => r.expirationDate > now)
ComputeActive(history, t) ==
  LET keep(r) == r.expirationDate > t
  IN SelectSeq(history, keep)

\* mutation of ClearedBy: the cleanup listener is never registered
ClearedBy_NoCleanup(c) == {}

\* the timers stopped by controller.abort(): every 'abort' listener runs its
\* cleanup (clearInterval) unless the signal was aborted before
ClearedBy(c) ==
  IF c = 0 \/ controllers[c].aborted THEN {} ELSE controllers[c].listeners

AbortControllers(c) ==
  [k \in 1..Len(controllers) |->
     IF k = c THEN [controllers[k] EXCEPT !.aborted = TRUE] ELSE controllers[k]]

\* clearInterval: the timer is no longer pending and releases its callback,
\* whose closure (selectedReport, filters) becomes unreachable
ClearIntervals(ints, cleared) ==
  [k \in 1..Len(ints) |->
     IF k \in cleared
     THEN [active |-> FALSE, currentProgress |-> ints[k].currentProgress,
           selectedReport |-> NoReport, filters |-> EmptyFilters]
     ELSE ints[k]]

\* the attempts whose cleanup was registered on controller c
Owned(c) == IF c = 0 THEN {} ELSE controllers[c].listeners

\* record how the running attempts among ended were ended
MarkFate(ended, how) ==
  [k \in 1..Len(fate) |->
     IF k \in ended /\ fate[k] = "running" THEN how ELSE fate[k]]

\* mutation of Completed: > instead of >=
Completed_Strict(cp) == cp > ProgressDone

\* if (currentProgress >= 100)
Completed(cp) == cp >= ProgressDone

\* disabled={!selectedReport || Object.keys(filters).length !== selectedReport.filters.length}
GenerateEnabled ==
  /\ selectedReport # NoReport
  /\ Cardinality(DOMAIN filters) = Len(ReportFilters(selectedReport))

Init ==
  /\ selectedReport = NoReport
  /\ filters = EmptyFilters
  /\ generationStatus = "null"
  /\ progress = 0
  /\ reportHistory = <<>>
  /\ activeReports = <<>>
  /\ abortControllerRef = 0
  /\ controllers = <<>>
  /\ intervals = <<>>
  /\ now = 0
  /\ mounted = TRUE
  /\ fate = <<>>

\* mutation of selectReportTemplate: setFilters({}) is forgotten
selectReportTemplate_KeepFilters(key) ==
  /\ mounted
  /\ selectedReport' = key
  /\ generationStatus' = "null"
  /\ UNCHANGED <<filters, progress, reportHistory, activeReports, abortControllerRef,
                 controllers, intervals, now, mounted, fate>>

\* mutation of selectReportTemplate: setGenerationStatus(null) is forgotten
selectReportTemplate_KeepStatus(key) ==
  /\ mounted
  /\ selectedReport' = key
  /\ filters' = EmptyFilters
  /\ UNCHANGED <<generationStatus, progress, reportHistory, activeReports,
                 abortControllerRef, controllers, intervals, now, mounted, fate>>

\* report type <Select onValueChange>
selectReportTemplate(key) ==
  /\ mounted
  /\ selectedReport' = key
  /\ generationStatus' = "null"
  /\ filters' = EmptyFilters
  /\ UNCHANGED <<progress, reportHistory, activeReports, abortControllerRef,
                 controllers, intervals, now, mounted, fate>>

\* setFilters(prev => ({ ...prev, [filterId]: value }))
updateFilter(prev, filterId, value) ==
  [k \in DOMAIN prev \cup {filterId} |-> IF k = filterId THEN value ELSE prev[k]]

\* filter <Select onValueChange> / <input onChange> of a filter of the selected template
setFilterValue(filterId, value) ==
  /\ mounted
  /\ selectedReport # NoReport
  /\ filterId \in Range(ReportFilters(selectedReport))
  /\ filters' = updateFilter(filters, filterId, value)
  /\ generationStatus' = "null"
  /\ UNCHANGED <<selectedReport, progress, reportHistory, activeReports,
                 abortControllerRef, controllers, intervals, now, mounted, fate>>

\* mutation of generateReport: the existing controller is not aborted
generateReport_NoAbort ==
  /\ mounted
  /\ GenerateEnabled
  /\ Len(intervals) < MaxAttempts
  /\ LET n == Len(intervals) + 1
     IN /\ controllers' = Append(controllers, [aborted |-> FALSE, listeners |-> {n}])
        /\ intervals' = Append(intervals,
                               [active |-> TRUE, currentProgress |-> 0,
                                selectedReport |-> selectedReport,
                                filters |-> filters])
        /\ fate' = Append(MarkFate(Owned(abortControllerRef), "superseded"), "running")
        /\ abortControllerRef' = n
  /\ generationStatus' = "generating"
  /\ progress' = 0
  /\ UNCHANGED <<selectedReport, filters, reportHistory, activeReports, now, mounted>>

\* mutation of generateReport: simulateGeneration() is never called, so no
\* interval is scheduled
generateReport_NoTimer ==
  /\ mounted
  /\ GenerateEnabled
  /\ Len(intervals) < MaxAttempts
  /\ LET cleared == ClearedBy(abortControllerRef)
         n == Len(intervals) + 1
     IN /\ controllers' = Append(AbortControllers(abortControllerRef),
                                 [aborted |-> FALSE, listeners |-> {}])
        /\ intervals' = Append(ClearIntervals(intervals, cleared),
                               [active |-> FALSE, currentProgress |-> 0,
                                selectedReport |-> NoReport,
                                filters |-> EmptyFilters])
        /\ fate' = Append(MarkFate(Owned(abortControllerRef), "superseded"), "running")
        /\ abortControllerRef' = n
  /\ generationStatus' = "generating"
  /\ progress' = 0
  /\ UNCHANGED <<selectedReport, filters, reportHistory, activeReports, now, mounted>>

\* onClick of the Generate Report button
generateReport ==
  /\ mounted
  /\ GenerateEnabled
  /\ Len(intervals) < MaxAttempts
  /\ LET cleared == ClearedBy(abortControllerRef)
         n == Len(intervals) + 1
     IN /\ controllers' = Append(AbortControllers(abortControllerRef),
                                 [aborted |-> FALSE, listeners |-> {n}])
        /\ intervals' = Append(ClearIntervals(intervals, cleared),
                               [active |-> TRUE, currentProgress |-> 0,
                                selectedReport |-> selectedReport,
                                filters |-> filters])
        /\ fate' = Append(MarkFate(Owned(abortControllerRef), "superseded"), "running")
        /\ abortControllerRef' = n
  /\ generationStatus' = "generating"
  /\ progress' = 0
  /\ UNCHANGED <<selectedReport, filters, reportHistory, activeReports, now, mounted>>

\* mutation of Prepend: the new report replaces the list
Prepend_Replace(report, prev) == <<report>>

\* setReportHistory(prev => [newReport, ...prev])
Prepend(report, prev) == <<report>> \o prev

\* mutation of newReport: the identifier is derived from a coarse clock value
newReport_CoarseId(a, t) ==
  [id |-> t \div Retention,
   type |-> ReportName(intervals[a].selectedReport),
   filters |-> intervals[a].filters,
   generatedAt |-> t,
   expirationDate |-> t + Retention,
   downloadLink |-> <<"/api/download-report-", t>>]

\* mutation of newReport: the retention window is added in seconds
newReport_ShortRetention(a, t) ==
  [id |-> t,
   type |-> ReportName(intervals[a].selectedReport),
   filters |-> intervals[a].filters,
   generatedAt |-> t,
   expirationDate |-> t + 28 * 24 * 60 * 60,
   downloadLink |-> <<"/api/download-report-", t>>]

\* mutation of newReport: the callback reads the state of the latest render
newReport_Current(a, t) ==
  [id |-> t,
   type |-> ReportName(selectedReport),
   filters |-> filters,
   generatedAt |-> t,
   expirationDate |-> t + Retention,
   downloadLink |-> <<"/api/download-report-", t>>]

\* the object built at completion; selectedReport and filters are the
\* constants of the render whose generateReport created the interval callback
newReport(a, t) ==
  [id |-> t,
   type |-> ReportName(intervals[a].selectedReport),
   filters |-> intervals[a].filters,
   generatedAt |-> t,
   expirationDate |-> t + Retention,
   downloadLink |-> <<"/api/download-report-", t>>]

\* one firing of the interval callback of attempt a, one period after the last
tick(a) ==
  /\ a \in Attempts
  /\ intervals[a].active
  /\ now' = now + TimerPeriod
  /\ IF abortControllerRef # 0 /\ controllers[abortControllerRef].aborted
     THEN /\ intervals' = ClearIntervals(intervals, {a})
          /\ generationStatus' = "cancelled"
          /\ progress' = 0
          /\ UNCHANGED <<reportHistory, activeReports, abortControllerRef, fate>>
     ELSE LET cp == intervals[a].currentProgress + ProgressStep
              ticked == [intervals EXCEPT ![a].currentProgress = cp]
          IN /\ progress' = cp
             /\ IF Completed(cp)
                THEN /\ intervals' = ClearIntervals(ticked, {a})
                     /\ generationStatus' = "completed"
                     /\ reportHistory' = Prepend(newReport(a, now'), reportHistory)
                     /\ activeReports' = ComputeActive(reportHistory', now')
                     /\ abortControllerRef' = 0
                     /\ fate' = MarkFate({a}, "completed")
                ELSE /\ intervals' = ticked
                     /\ UNCHANGED <<generationStatus, reportHistory, activeReports,
                                    abortControllerRef, fate>>
  /\ UNCHANGED <<selectedReport, filters, controllers, mounted>>

\* onClick of the Cancel button, rendered while generationStatus === 'generating'
cancelGeneration ==
  /\ mounted
  /\ generationStatus = "generating"
  /\ LET cleared == ClearedBy(abortControllerRef)
     IN /\ controllers' = AbortControllers(abortControllerRef)
        /\ intervals' = ClearIntervals(intervals, cleared)
        /\ fate' = MarkFate(Owned(abortControllerRef), "cancelled")
  /\ abortControllerRef' = 0
  /\ generationStatus' = "null"
  /\ progress' = 0
  /\ UNCHANGED <<selectedReport, filters, reportHistory, activeReports, now, mounted>>

\* mutation of deleteReport: === instead of !==
deleteReport_Inverted(reportId) ==
  /\ mounted
  /\ LET keep(r) == r.id = reportId
     IN reportHistory' = SelectSeq(reportHistory, keep)
  /\ activeReports' = ComputeActive(reportHistory', now)
  /\ UNCHANGED <<selectedReport, filters, generationStatus, progress,
                 abortControllerRef, controllers, intervals, now, mounted, fate>>

\* setReportHistory(prev => prev.filter(report => report.id !== reportId))
deleteReport(reportId) ==
  /\ mounted
  /\ LET keep(r) == r.id # reportId
     IN reportHistory' = SelectSeq(reportHistory, keep)
  /\ activeReports' = ComputeActive(reportHistory', now)
  /\ UNCHANGED <<selectedReport, filters, generationStatus, progress,
                 abortControllerRef, controllers, intervals, now, mounted, fate>>

\* mutation of teardown: the effect has no cleanup
teardown_NoAbort ==
  /\ mounted
  /\ mounted' = FALSE
  /\ fate' = MarkFate(Owned(abortControllerRef), "torndown")
  /\ UNCHANGED <<selectedReport, filters, generationStatus, progress, reportHistory,
                 activeReports, abortControllerRef, controllers, intervals, now>>

\* the cleanup of useEffect(() => ..., []): the component unmounts
teardown ==
  /\ mounted
  /\ mounted' = FALSE
  /\ LET cleared == ClearedBy(abortControllerRef)
     IN /\ controllers' = AbortControllers(abortControllerRef)
        /\ intervals' = ClearIntervals(intervals, cleared)
        /\ fate' = MarkFate(Owned(abortControllerRef), "torndown")
  /\ UNCHANGED <<selectedReport, filters, generationStatus, progress, reportHistory,
                 activeReports, abortControllerRef, now>>

\* 28 days pass with no event. The program compares the clock only with the
\* expiration of its records, so the passage of time is explored while the
\* history holds a record that has not expired.
advanceClock ==
  /\ now < MaxJumps * Retention
  /\ \E i \in 1..Len(reportHistory) : reportHistory[i].expirationDate > now
  /\ now' = now + Retention
  /\ UNCHANGED <<selectedReport, filters, generationStatus, progress, reportHistory,
                 activeReports, abortControllerRef, controllers, intervals, mounted, fate>>

\* the identifiers deleteReport is called with: those of the stored records
\* and one more value
DeleteIds == {reportHistory[i].id : i \in 1..Len(reportHistory)} \cup {now}

Next ==
  \/ \E key \in ReportKeys : selectReportTemplate(key)
  \/ \E key \in ReportKeys : \E filterId \in Range(ReportFilters(key)) :
       \E value \in FilterOptions(filterId) : setFilterValue(filterId, value)
  \/ generateReport
  \/ \E a \in Attempts : tick(a)
  \/ cancelGeneration
  \/ \E reportId \in DeleteIds : deleteReport(reportId)
  \/ teardown
  \/ advanceClock

Spec == Init /\ [][Next]_vars

\* ----------------------------------------------------------------- claims
\* the attempt a fires a tick in this step
Ticks(a) == intervals'[a].currentProgress # intervals[a].currentProgress

\* this step sets the status to completed or adds a record
Completes ==
  \/ generationStatus' = "completed" /\ generationStatus # "completed"
  \/ Len(reportHistory') > Len(reportHistory)

\* C1: once cancelGeneration has acted on an attempt, its timer is not pending
\* and it never fires a tick again; a step that sets the status to completed
\* or adds a record is a tick of an attempt that was never cancelled.
C1_CancellationRaceFree ==
  [][/\ \A a \in Attempts : fate[a] = "cancelled" =>
          /\ ~intervals[a].active
          /\ intervals'[a] = intervals[a]
          /\ fate'[a] = "cancelled"
     /\ Completes => \E a \in Attempts : fate[a] = "running" /\ Ticks(a)]_vars

\* one attempt was cancelled before its first tick, another after 9 ticks
C1_Witness ==
  \E a, b \in Attempts :
    /\ fate[a] = "cancelled" /\ intervals[a].currentProgress = 0
    /\ fate[b] = "cancelled"
    /\ intervals[b].currentProgress = ProgressDone - ProgressStep

\* C2 (as claimed): cancelling while generating leaves the status cancelled
\* and the progress 0.
C2_CancelLeavesCancelled ==
  [][cancelGeneration => generationStatus' = "cancelled" /\ progress' = 0]_vars

\* C3: a generateReport leaves no earlier timer pending; a superseded attempt
\* never fires a tick again; the attempt that completes is the newest one and
\* completes on its own tenth tick.
C3_SupersededIsolation ==
  [][/\ Len(intervals') > Len(intervals) =>
          \A a \in Attempts : ~intervals'[a].active
     /\ \A a \in Attempts : fate[a] = "superseded" =>
          /\ ~intervals[a].active
          /\ intervals'[a] = intervals[a]
          /\ fate'[a] = "superseded"
     /\ \A a \in Attempts : fate[a] # "completed" /\ fate'[a] = "completed" =>
          /\ a = Len(intervals)
          /\ intervals[a].currentProgress = ProgressDone - ProgressStep
          /\ intervals'[a].currentProgress = ProgressDone
     /\ Completes => \E a \in Attempts : a = Len(intervals) /\ Ticks(a)]_vars

\* an attempt was superseded after some ticks and the newest attempt completed
C3_Witness ==
  \E a \in Attempts :
    /\ fate[a] = "superseded"
    /\ intervals[a].currentProgress > 0
    /\ a < Len(intervals)
    /\ fate[Len(intervals)] = "completed"
    /\ Len(reportHistory) = 1

\* C4: every tick adds 10 to the attempt's progress; the tick that reaches 100
\* sets the status to completed, prepends one record and stops the timer; the
\* other ticks leave the history alone; after 100 the attempt never ticks
\* again, and a record is added only by a tick that reaches 100.
C4_CompletesExactlyOnce ==
  [][/\ \A a \in Attempts :
          /\ intervals[a].currentProgress >= ProgressDone =>
               ~intervals[a].active /\ intervals'[a] = intervals[a]
          /\ Ticks(a) =>
               /\ intervals'[a].currentProgress =
                    intervals[a].currentProgress + ProgressStep
               /\ IF intervals'[a].currentProgress = ProgressDone
                  THEN /\ generationStatus' = "completed"
                       /\ Len(reportHistory') = Len(reportHistory) + 1
                       /\ Tail(reportHistory') = reportHistory
                       /\ Head(reportHistory').generatedAt = now'
                       /\ ~intervals'[a].active
                  ELSE /\ reportHistory' = reportHistory
                       /\ intervals'[a].active
     /\ Len(reportHistory') > Len(reportHistory) =>
          \E a \in Attempts :
            /\ intervals[a].currentProgress = ProgressDone - ProgressStep
            /\ intervals'[a].currentProgress = ProgressDone]_vars

\* an attempt completed, its record is the only one, and time went on
C4_Witness ==
  /\ Len(intervals) = 1
  /\ fate[1] = "completed"
  /\ generationStatus = "completed"
  /\ progress = ProgressDone
  /\ Len(reportHistory) = 1
  /\ now > reportHistory[1].generatedAt

\* C5: the Generate button is enabled iff a template is selected and the keys
\* of filters are exactly the filter ids of the selected template.
C5_GuardIffAllFilters ==
  GenerateEnabled <=>
    /\ selectedReport # NoReport
    /\ DOMAIN filters = Range(ReportFilters(selectedReport))

\* the button is enabled for a template selected after another one was used
C5_Witness ==
  /\ GenerateEnabled
  /\ selectedReport = "sales"
  /\ Len(reportHistory) = 1
  /\ reportHistory[1].type = "Inventory Report"

C7_ActiveIsFilterOfNow ==
  LET keep(r) == r.expirationDate > now
  IN activeReports = SelectSeq(reportHistory, keep)

\* s without its i-th element
RemoveAt(s, i) == SubSeq(s, 1, i - 1) \o SubSeq(s, i + 1, Len(s))

\* C8: deleteReport(id) removes the one record with that id and keeps the
\* others in order, changes nothing when no record has the id, and shortens
\* the history by at most one.
C8_DeleteExactlyOne ==
  [][\A reportId \in DeleteIds : deleteReport(reportId) =>
       LET hits == {i \in 1..Len(reportHistory) : reportHistory[i].id = reportId}
       IN /\ Len(reportHistory') >= Len(reportHistory) - 1
          /\ hits = {} => reportHistory' = reportHistory
          /\ hits # {} => \E i \in hits : reportHistory' = RemoveAt(reportHistory, i)]_vars

\* two attempts completed and one of the two records was deleted
C8_Witness ==
  /\ Len(intervals) = 2
  /\ fate[1] = "completed"
  /\ fate[2] = "completed"
  /\ Len(reportHistory) = 1

\* C9: the unmount leaves no timer pending, and after it no tick fires and the
\* status, the progress and the history never change.
C9_TeardownStopsTimer ==
  [][/\ ~mounted' => \A a \in 1..Len(intervals') : ~intervals'[a].active
     /\ ~mounted =>
          /\ ~mounted'
          /\ intervals' = intervals
          /\ generationStatus' = generationStatus
          /\ progress' = progress
          /\ reportHistory' = reportHistory]_vars

\* the component was unmounted while an attempt had fired 9 ticks, and time
\* went on
C9_Witness ==
  /\ ~mounted
  /\ generationStatus = "generating"
  /\ \E a \in Attempts :
       /\ fate[a] = "torndown"
       /\ intervals[a].currentProgress = ProgressDone - ProgressStep
  /\ now >= Retention

\* C10: selecting a template leaves the filters empty and the status idle, and
\* does not change the history.
C10_SelectResets ==
  [][\A key \in ReportKeys :
       (selectReportTemplate(key) \/ (selectedReport' = key /\ selectedReport # key)) =>
         /\ filters' = EmptyFilters
         /\ generationStatus' = "null"
         /\ reportHistory' = reportHistory]_vars

\* another template was selected while an attempt for the sales template is
\* running and the history holds a record
C10_Witness ==
  /\ selectedReport = "revenue"
  /\ filters = EmptyFilters
  /\ generationStatus = "null"
  /\ Len(reportHistory) = 1
  /\ \E a \in Attempts :
       intervals[a].active /\ intervals[a].selectedReport = "sales"

\* C11 (as claimed): while the status is idle and no generateReport is invoked,
\* the status stays idle and the history gains no record.
C11_IdleUntilGenerate ==
  [][(generationStatus = "null" /\ Len(intervals') = Len(intervals)) =>
       /\ generationStatus' = "null"
       /\ Len(reportHistory') <= Len(reportHistory)]_vars

\* the attempts whose timer is pending
Pending == {a \in Attempts : intervals[a].active}

\* C12: at most one timer is pending.
C12_AtMostOneTimer == Cardinality(Pending) <= 1

\* an attempt was superseded after some ticks and the timer of its successor
\* is the one pending
C12_Witness ==
  /\ Len(intervals) = 2
  /\ fate[1] = "superseded"
  /\ intervals[1].currentProgress > 0
  /\ Pending = {2}
  /\ intervals[2].currentProgress > 0

\* the multiples of the step from 0 to 100
ProgressValues == {k * ProgressStep : k \in 0..(ProgressDone \div ProgressStep)}

\* C13: the progress is a multiple of 10 in [0,100]; generateReport sets it to
\* 0 with the status generating; every tick adds exactly 10 to it.
C13_ProgressSteps ==
  [][/\ progress \in ProgressValues
     /\ progress' \in ProgressValues
     /\ Len(intervals') > Len(intervals) =>
          progress' = 0 /\ generationStatus' = "generating"
     /\ \A a \in Attempts : Ticks(a) =>
          /\ progress' = progress + ProgressStep
          /\ progress' = intervals'[a].currentProgress]_vars

\* the second attempt shows 10 after it superseded an attempt that showed 90
C13_Witness ==
  /\ Len(intervals) = 2
  /\ fate[1] = "superseded"
  /\ intervals[1].currentProgress = ProgressDone - ProgressStep
  /\ generationStatus = "generating"
  /\ progress = ProgressStep

\* C14: a step that is not a deleteReport leaves the history as it is or
\* prepends one record to it; the records it holds stay, unchanged and in
\* order, expired or not.
C14_AppendOnly ==
  [][(\E reportId \in DeleteIds : deleteReport(reportId))
     \/ reportHistory' = reportHistory
     \/ (reportHistory' # <<>> /\ Tail(reportHistory') = reportHistory)]_vars

\* a record was prepended to a history whose older record has expired
C14_Witness ==
  /\ Len(reportHistory) = 2
  /\ reportHistory[2].expirationDate <= reportHistory[1].generatedAt
  /\ reportHistory[1].expirationDate > now

\* C15: the identifiers of the records of the history are pairwise distinct.
C15_UniqueIds ==
  \A i, j \in 1..Len(reportHistory) :
    i # j => reportHistory[i].id # reportHistory[j].id

\* two records, completed ten periods apart with no clock jump between them
C15_Witness ==
  /\ Len(reportHistory) = 2
  /\ reportHistory[1].generatedAt =
       reportHistory[2].generatedAt + (ProgressDone \div ProgressStep) * TimerPeriod

C17_RecordConsistent ==
  \A i \in 1..Len(reportHistory) :
    \E key \in ReportKeys :
      /\ ReportName(key) = reportHistory[i].type
      /\ DOMAIN reportHistory[i].filters = Range(ReportFilters(key))

\* an attempt for the sales template has just completed while another
\* template is selected and the filters are empty
C17_Witness ==
  /\ generationStatus = "completed"
  /\ selectedReport = "revenue"
  /\ filters = EmptyFilters
  /\ Len(reportHistory) = 1
  /\ reportHistory[1].type = "Sales Report"
  /\ reportHistory[1].generatedAt = now

\* the browser fires a pending interval timer: the ticks are weakly fair
FairSpec == Spec /\ WF_vars(\E a \in 1..MaxAttempts : tick(a))

\* the attempt a completed: its timer is stopped at 100 and the record it
\* built at this instant heads the history
Done(a) ==
  /\ fate[a] = "completed"
  /\ ~intervals[a].active
  /\ intervals[a].currentProgress = ProgressDone
  /\ progress = ProgressDone
  /\ reportHistory # <<>>
  /\ Head(reportHistory).generatedAt = now

\* C18: with fair ticks, every attempt that is started either is cancelled,
\* superseded or torn down, or reaches 100 with its timer stopped and its
\* record in the history.
C18_AttemptCompletes ==
  \A a \in 1..MaxAttempts :
    (a \in Attempts /\ fate[a] = "running") ~>
      (a \in Attempts /\
         (fate[a] \in {"cancelled", "superseded", "torndown"} \/ Done(a)))

\* the second attempt has just completed after the first was cancelled
C18_Witness ==
  /\ Len(intervals) = 2
  /\ fate[1] = "cancelled"
  /\ Done(2)
  /\ Len(reportHistory) = 1

====
